---- MODULE Spec2Model ----
(***************************************************************************)
(* Copy-trade webhook service (src/src/main.rs) and the polling monitor    *)
(* (src/monitor.rs) of fleazy/limit-buster.                                *)
(*                                                                         *)
(* Spec     one webhook delivery handled by webhook_handler, with the log  *)
(*          file, the aggregator and the RPC service as environment.       *)
(* FairSpec Spec plus weak fairness of the handler's own steps; the        *)
(*          answers of the aggregator and of the RPC service are not fair. *)
(* FnSpec   the pure functions is_buy_transaction and extract_token_mint   *)
(*          applied to every event of a bounded input set.                 *)
(* MonSpec  the webhook classifier and the monitor's classifier applied to *)
(*          the same transaction.                                          *)
(* ConcSpec two webhook deliveries handled concurrently.                   *)
(*                                                                         *)
(* Rust's Option<T> is a sequence of length 0 (None) or 1 (Some), a        *)
(* Result<T, E> is a record [ok, val, err].  Vec indices are 0-based in    *)
(* the source and 1-based here; Get does the shift.  f64 ui-amounts are    *)
(* integers (only their sign is ever inspected by the code).               *)
(***************************************************************************)
EXTENDS Integers, Sequences, FiniteSets, TLC

VARIABLES
    body,       \* delivery -> the raw payload bytes of the webhook delivery
    pc,         \* delivery -> position of webhook_handler for that delivery
    payload,    \* delivery -> the decoded Vec<WebhookPayload>
    idx,        \* delivery -> 0-based position of the `for tx in &payload` loop
    trace,      \* delivery -> operations done so far, each tagged with its event
    console,    \* delivery -> lines printed by println!/eprintln!
    response,   \* delivery -> the HTTP response, None until the handler returns
    logFile,    \* the lines of /var/log/wallet-monitor.log
    state,      \* AppState, built once by main
    tx,         \* FnSpec, MonSpec: the event a pure function is applied to
    ret         \* FnSpec, MonSpec: the values the pure functions returned

vars == <<body, pc, payload, idx, trace, console, response, logFile, state, tx, ret>>

handlerVars == <<body, pc, payload, idx, trace, console, response, logFile, state>>

(***************************************************************************)
(* Bounds                                                                  *)
(***************************************************************************)
MaxBatch == 2      \* entries in one delivered batch
MaxKeys == 2       \* accountKeys of a FnSpec event
MaxInstr == 2      \* top-level instructions of a FnSpec event
MaxInner == 1      \* inner instructions of a FnSpec event
MaxBal == 2        \* entries of preTokenBalances / postTokenBalances (FnSpec)

(***************************************************************************)
(* Option, Result, Vec                                                     *)
(***************************************************************************)
None == <<>>

Some(v) == <<v>>

is_some(o) == Len(o) > 0

is_none(o) == Len(o) = 0

unwrap(o) == o[1]

unwrap_or(o, d) == IF is_some(o) THEN o[1] ELSE d

Ok(v) == [ok |-> TRUE, val |-> <<v>>, err |-> ""]

Err(e) == [ok |-> FALSE, val |-> <<>>, err |-> e]

\* slice::get: 0-based, None when out of bounds.
Get(v, i) == IF i >= 0 /\ i < Len(v) THEN Some(v[i + 1]) ELSE None

SeqsUpTo(S, n) == UNION {[1..k -> S] : k \in 0..n}

Min(S) == CHOOSE m \in S : \A n \in S : m <= n

(***************************************************************************)
(* Program constants                                                       *)
(***************************************************************************)
JUPITER == "JUP4Fb2cqiRUcaTHdrPC8h2gNsA2ETXiPDD33WcGuJB"

RAYDIUM == "675kPX9MHTjS2zt1qfr1NYHuzeLXfQM9H24wFSUt1Mp8"

SYSTEM_PROGRAM == "11111111111111111111111111111111"

default_key == ""

NATIVE_MINT == "So11111111111111111111111111111111111111112"

QUOTE_AMOUNT == 1000000

SLIPPAGE == "0.5"

StatusCode_OK == 200

(***************************************************************************)
(* Data model: WebhookPayload, TransactionData, Message, Instruction,      *)
(* Meta, InnerInstruction, TokenBalance, UiTokenAmount                     *)
(***************************************************************************)
Instruction(i) == [program_id_index |-> i]

InnerInstruction(ixs) == [index |-> 0, instructions |-> ixs]

TokenBalance(m, a) == [mint |-> m, ui_token_amount |-> [ui_amount |-> a]]

Meta(inner, pre, post) ==
    [inner_instructions |-> inner, pre_token_balances |-> pre, post_token_balances |-> post]

TransactionData(sigs, keys, ixs) ==
    [signatures |-> sigs, message |-> [account_keys |-> keys, instructions |-> ixs]]

WebhookPayload(t, m) == [transaction |-> t, meta |-> m]

(***************************************************************************)
(* is_buy_transaction, main.rs 223-231                                     *)
(***************************************************************************)
Range(s) == {s[k] : k \in DOMAIN s}

is_buy_transaction_inner(t) ==
    LET account_keys == t.transaction.message.account_keys
        top == Range(t.transaction.message.instructions)
        nested == IF is_some(t.meta)
                  THEN UNION {Range(ii.instructions) : ii \in Range(unwrap(t.meta).inner_instructions)}
                  ELSE {}
    IN  \E ix \in top \cup nested :
            unwrap_or(Get(account_keys, ix.program_id_index), default_key) \in {JUPITER, RAYDIUM}

\* An out-of-range index falls back to the last account key.
is_buy_transaction_clamped(t) ==
    LET account_keys == t.transaction.message.account_keys
    IN  \E ix \in Range(t.transaction.message.instructions) :
            /\ Len(account_keys) > 0
            /\ LET i == IF ix.program_id_index < Len(account_keys)
                        THEN ix.program_id_index ELSE Len(account_keys) - 1
               IN  unwrap(Get(account_keys, i)) \in {JUPITER, RAYDIUM}

is_buy_transaction(t) ==
    LET account_keys == t.transaction.message.account_keys
    IN  \E k \in DOMAIN t.transaction.message.instructions :
            LET ix == t.transaction.message.instructions[k]
                program_id == unwrap_or(Get(account_keys, ix.program_id_index), default_key)
            IN  program_id = JUPITER \/ program_id = RAYDIUM

(***************************************************************************)
(* The polling monitor's classifier, monitor.rs 45-52.  Its transactions   *)
(* carry the program identifier in each instruction.                       *)
(***************************************************************************)
MonitorInstruction(program_id) == [program_id |-> program_id]

MonitorTransaction(instructions) == [instructions |-> instructions]

\* Only the first of the two identifiers is recognised.
monitor_is_buy_jupiter_only(mtx) ==
    \E k \in DOMAIN mtx.instructions :
        LET ix == mtx.instructions[k]
        IN  ix.program_id = "JUP4Fb2cqiRUcaTHdrPC8h2gNsA2ETXiPDD33WcGuJB"

monitor_is_buy_transaction(mtx) ==
    \E k \in DOMAIN mtx.instructions :
        LET ix == mtx.instructions[k]
        IN  \/ ix.program_id = "JUP4Fb2cqiRUcaTHdrPC8h2gNsA2ETXiPDD33WcGuJB"
            \/ ix.program_id = "675kPX9MHTjS2zt1qfr1NYHuzeLXfQM9H24wFSUt1Mp8"

\* Every instruction of the webhook event t names an account key that exists.
all_in_range(t) ==
    \A k \in DOMAIN t.transaction.message.instructions :
        t.transaction.message.instructions[k].program_id_index
            < Len(t.transaction.message.account_keys)

\* The webhook event t as the monitor sees a transaction: the same
\* instructions, each with the account key its program_id_index names.
as_monitor_transaction(t) ==
    MonitorTransaction(
        [k \in DOMAIN t.transaction.message.instructions |->
            MonitorInstruction(unwrap(Get(t.transaction.message.account_keys,
                                          t.transaction.message.instructions[k].program_id_index)))])

(***************************************************************************)
(* extract_token_mint, main.rs 233-244                                     *)
(***************************************************************************)
\* Iterator::find: the first element that satisfies the predicate.
find_pre(pre_token_balances, mint) ==
    LET hits == {k \in DOMAIN pre_token_balances : pre_token_balances[k].mint = mint}
    IN  IF hits = {} THEN None ELSE Some(pre_token_balances[Min(hits)])

extract_token_mint_any_zero(t) ==
    IF is_none(t.meta) THEN None
    ELSE LET meta == unwrap(t.meta)
             post == meta.post_token_balances
             pre == meta.pre_token_balances
             hit == {k \in DOMAIN post :
                       /\ unwrap_or(post[k].ui_token_amount.ui_amount, 0) > 0
                       /\ \/ \A j \in DOMAIN pre : pre[j].mint # post[k].mint
                          \/ \E j \in DOMAIN pre :
                                /\ pre[j].mint = post[k].mint
                                /\ unwrap_or(pre[j].ui_token_amount.ui_amount, 0) = 0}
         IN  IF hit = {} THEN None ELSE Some(post[Min(hit)].mint)

\* The pre-balances are not consulted.
extract_token_mint_no_pre(t) ==
    IF is_none(t.meta) THEN None
    ELSE LET post == unwrap(t.meta).post_token_balances
             hit == {k \in DOMAIN post : unwrap_or(post[k].ui_token_amount.ui_amount, 0) > 0}
         IN  IF hit = {} THEN None ELSE Some(post[Min(hit)].mint)

extract_token_mint(t) ==
    IF is_none(t.meta) THEN None
    ELSE LET meta == unwrap(t.meta)
             post == meta.post_token_balances
             hit == {k \in DOMAIN post :
                       /\ unwrap_or(post[k].ui_token_amount.ui_amount, 0) > 0
                       /\ LET pre_balance == find_pre(meta.pre_token_balances, post[k].mint)
                          IN  \/ is_none(pre_balance)
                              \/ unwrap_or(unwrap(pre_balance).ui_token_amount.ui_amount, 0) = 0}
         IN  IF hit = {} THEN None ELSE Some(post[Min(hit)].mint)

(***************************************************************************)
(* AppState, main.rs 168-175 and 338-350                                   *)
(***************************************************************************)
OPERATOR_KEYPAIR == "operator-keypair"

OPERATOR_PUBKEY == "operator-pubkey"

OTHER_PUBKEY == "other-pubkey"

\* Keypair::pubkey
pubkey(keypair) == IF keypair = OPERATOR_KEYPAIR THEN OPERATOR_PUBKEY ELSE OTHER_PUBKEY

AppState ==
    [wallet |-> "watched-wallet", rpc_client |-> "rpc", keypair |-> OPERATOR_KEYPAIR,
     http_client |-> "http", helius_api_key |-> "api-key"]

(***************************************************************************)
(* The aggregator: quote and swap answers, main.rs 142-166                 *)
(***************************************************************************)
JupiterRoute(out, label) ==
    [in_amount |-> "1000000", out_amount |-> out, market_infos |-> <<[id |-> label, label |-> label]>>]

Route1 == JupiterRoute("41", "Orca")

Route2 == JupiterRoute("42", "Raydium")

\* send().await?.json().await? of the quote call: a transport error, a body that
\* is no JupiterQuoteResponse, or a JupiterQuoteResponse.
QuoteResponses ==
    {Err("error sending request"), Err("error decoding response body"),
     Ok([data |-> <<>>]), Ok([data |-> <<Route1, Route2>>])}

\* The transaction the aggregator built (solana_sdk Transaction): the first
\* num_required_signatures account keys are the required signers.
Transaction(keys, n, bh) ==
    [signatures |-> [k \in 1..n |-> None],
     message |-> [header |-> [num_required_signatures |-> n], account_keys |-> keys,
                  recent_blockhash |-> bh]]

TxOperator == Transaction(<<OPERATOR_PUBKEY, JUPITER>>, 1, "blockhash-1")

TxOtherSigner == Transaction(<<OTHER_PUBKEY, JUPITER>>, 1, "blockhash-1")

TxTwoSigners == Transaction(<<OPERATOR_PUBKEY, OTHER_PUBKEY>>, 2, "blockhash-2")

\* bincode::serialize and BASE64_STANDARD.encode, the inverses of the two
\* decoding steps of main.rs 277-278.
Bincode(t) == [kind |-> "bincode", tx |-> Some(t)]

JunkBytes == [kind |-> "junk", tx |-> None]

Base64(bytes) == [kind |-> "base64", bytes |-> Some(bytes)]

NotBase64 == [kind |-> "text", bytes |-> None]

JsonString(s) == [type |-> "string", str |-> Some(s)]

JsonNumber == [type |-> "number", str |-> None]

\* serde_json::Value of the swap answer: the swapTransaction member, if any.
SwapJson(member) == [swapTransaction |-> member]

BuildResponses ==
    {Err("error sending request"),
     Ok(SwapJson(None)),
     Ok(SwapJson(Some(JsonNumber))),
     Ok(SwapJson(Some(JsonString(NotBase64)))),
     Ok(SwapJson(Some(JsonString(Base64(JunkBytes))))),
     Ok(SwapJson(Some(JsonString(Base64(Bincode(TxOperator)))))),
     Ok(SwapJson(Some(JsonString(Base64(Bincode(TxOtherSigner)))))),
     Ok(SwapJson(Some(JsonString(Base64(Bincode(TxTwoSigners))))))}

\* send_and_confirm_transaction_with_spinner_and_commitment
SubmitResponses ==
    {Ok("network-signature"), Err("SubmissionError"), Err("ConfirmationTimeout")}

(***************************************************************************)
(* perform_copytrade_swap, main.rs 246-287: the steps between two awaits   *)
(***************************************************************************)
\* main.rs 247-250
quote_url(token_mint) ==
    [inputMint |-> NATIVE_MINT, outputMint |-> token_mint, amount |-> QUOTE_AMOUNT,
     slippage |-> SLIPPAGE]

\* An empty route list yields a default route instead of an error.
first_route_or_default(data) ==
    IF Len(data) = 0 THEN Ok(Route1) ELSE Ok(Head(data))

\* The last route of the list is taken.
first_route_last(data) ==
    IF Len(data) = 0 THEN Err("No swap route found") ELSE Ok(data[Len(data)])

\* main.rs 258: quote_response.data.into_iter().next().ok_or(..)
first_route(data) ==
    IF Len(data) = 0 THEN Err("No swap route found") ELSE Ok(Head(data))

\* main.rs 260-264
JupiterSwapRequest(route, keypair) ==
    [route |-> route, user_public_key |-> pubkey(keypair), wrap_and_unwrap_sol |-> TRUE]

\* to_string() in place of as_str(): any value, null included, renders as text.
swap_transaction_to_string(swap_response) ==
    IF /\ is_some(swap_response.swapTransaction)
       /\ unwrap(swap_response.swapTransaction).type = "string"
    THEN Ok(unwrap(unwrap(swap_response.swapTransaction).str))
    ELSE Ok(NotBase64)

\* main.rs 273-275: swap_response["swapTransaction"].as_str().ok_or(..)
swap_transaction_str(swap_response) ==
    IF /\ is_some(swap_response.swapTransaction)
       /\ unwrap(swap_response.swapTransaction).type = "string"
    THEN Ok(unwrap(unwrap(swap_response.swapTransaction).str))
    ELSE Err("No swap transaction returned")

\* main.rs 277: BASE64_STANDARD.decode
base64_decode(s) ==
    IF s.kind = "base64" THEN Ok(unwrap(s.bytes)) ELSE Err("Invalid byte")

\* main.rs 278: bincode::deserialize::<Transaction>
bincode_deserialize(bytes) ==
    IF bytes.kind = "bincode" THEN Ok(unwrap(bytes.tx)) ELSE Err("io error: unexpected end of file")

Signature(keypair, message) == [signer |-> pubkey(keypair), recent_blockhash |-> message.recent_blockhash]

\* Transaction::try_sign with one keypair: the keypair must be one of the
\* required signers, and afterwards every required signature must be present.
try_sign(t, keypair, recent_blockhash) ==
    LET n == t.message.header.num_required_signatures
        keys == t.message.account_keys
        positions == {k \in 1..n : k <= Len(keys) /\ keys[k] = pubkey(keypair)}
        message == [t.message EXCEPT !.recent_blockhash = recent_blockhash]
        cleared == IF recent_blockhash = t.message.recent_blockhash
                   THEN t.signatures ELSE [k \in 1..n |-> None]
        signed == [k \in 1..n |->
                     IF k = Min(positions) THEN Some(Signature(keypair, message)) ELSE cleared[k]]
    IN  IF n > Len(keys) THEN Err("InvalidAccountIndex")
        ELSE IF positions = {} THEN Err("KeypairPubkeyMismatch")
        ELSE IF \E k \in 1..n : is_none(signed[k]) THEN Err("NotEnoughSigners")
        ELSE Ok([signatures |-> signed, message |-> message])

\* One entry of the trace: operation op done for event ev (1-based, 0 for
\* the delivery as a whole).
Op(ev, op, arg) == [ev |-> ev, op |-> op, arg |-> arg]

Line(ev, msg, detail) == [ev |-> ev, msg |-> msg, detail |-> detail]

\* main.rs 255-272: from the quote answer to the swap request, or to the error
\* `?` returns.  [ops, next, err]: next is "build_wait" or "err".
after_quote(ev, r, app) ==
    LET got == <<Op(ev, "quote_response", r)>>
    IN  IF ~r.ok THEN [ops |-> got, next |-> "err", err |-> r.err]
        ELSE LET route == first_route(unwrap(r.val).data)
             IN  IF ~route.ok THEN [ops |-> got, next |-> "err", err |-> route.err]
                 ELSE [ops |-> got \o <<Op(ev, "build", JupiterSwapRequest(unwrap(route.val), app.keypair))>>,
                       next |-> "build_wait", err |-> ""]

\* The decoded transaction is submitted as it came, without the signing step.
after_build_unsigned(ev, r, app) ==
    LET got == <<Op(ev, "build_response", r)>>
    IN  IF ~r.ok THEN [ops |-> got, next |-> "err", err |-> r.err]
        ELSE LET serialized_tx == swap_transaction_str(unwrap(r.val))
             IN  IF ~serialized_tx.ok THEN [ops |-> got, next |-> "err", err |-> serialized_tx.err]
                 ELSE LET decoded_tx == base64_decode(unwrap(serialized_tx.val))
                          dec == got \o <<Op(ev, "decode", unwrap(serialized_tx.val))>>
                      IN  IF ~decoded_tx.ok THEN [ops |-> dec, next |-> "err", err |-> decoded_tx.err]
                          ELSE LET t == bincode_deserialize(unwrap(decoded_tx.val))
                               IN  IF ~t.ok THEN [ops |-> dec, next |-> "err", err |-> t.err]
                                   ELSE [ops |-> dec \o <<Op(ev, "submit", unwrap(t.val))>>,
                                         next |-> "submit_wait", err |-> ""]

\* main.rs 270-284: from the swap answer to the submission, to the error `?`
\* returns, or to the panic of Transaction::sign (which has no Result).
after_build(ev, r, app) ==
    LET got == <<Op(ev, "build_response", r)>>
    IN  IF ~r.ok THEN [ops |-> got, next |-> "err", err |-> r.err]
        ELSE LET serialized_tx == swap_transaction_str(unwrap(r.val))
             IN  IF ~serialized_tx.ok THEN [ops |-> got, next |-> "err", err |-> serialized_tx.err]
                 ELSE LET decoded_tx == base64_decode(unwrap(serialized_tx.val))
                          dec == got \o <<Op(ev, "decode", unwrap(serialized_tx.val))>>
                      IN  IF ~decoded_tx.ok THEN [ops |-> dec, next |-> "err", err |-> decoded_tx.err]
                          ELSE LET t == bincode_deserialize(unwrap(decoded_tx.val))
                               IN  IF ~t.ok THEN [ops |-> dec, next |-> "err", err |-> t.err]
                                   ELSE LET signed == try_sign(unwrap(t.val), app.keypair,
                                                               unwrap(t.val).message.recent_blockhash)
                                            sig == dec \o <<Op(ev, "sign", signed)>>
                                        IN  IF ~signed.ok
                                            THEN [ops |-> sig, next |-> "panicked", err |-> signed.err]
                                            ELSE [ops |-> sig \o <<Op(ev, "submit", unwrap(signed.val))>>,
                                                  next |-> "submit_wait", err |-> ""]

(***************************************************************************)
(* The webhook payload: a JSON array whose entries may lack "transaction"  *)
(***************************************************************************)
RawEntry(transaction, meta) == [transaction |-> transaction, meta |-> meta]

\* serde's derived Deserialize for WebhookPayload, main.rs 17-28.
deserialize_entry(e) ==
    IF is_none(e.transaction) THEN Err("missing field transaction")
    ELSE Ok(WebhookPayload(unwrap(e.transaction), e.meta))

Good(entries) == SelectSeq(entries, LAMBDA e : deserialize_entry(e).ok)

from_slice_skip_bad(b) ==
    IF ~b.json_array THEN Err("expected value")
    ELSE Ok([k \in DOMAIN Good(b.entries) |-> unwrap(deserialize_entry(Good(b.entries)[k]).val)])

\* serde_json::from_slice::<Vec<WebhookPayload>>, main.rs 181
from_slice(b) ==
    IF ~b.json_array THEN Err("expected value")
    ELSE LET bad == {k \in DOMAIN b.entries : ~deserialize_entry(b.entries[k]).ok}
         IN  IF bad # {} THEN Err(deserialize_entry(b.entries[Min(bad)]).err)
             ELSE Ok([k \in DOMAIN b.entries |-> unwrap(deserialize_entry(b.entries[k]).val)])

TOKEN_X == "TOKEN_X"

TOKEN_Y == "TOKEN_Y"

\* No top-level swap instruction: index 2 is out of range, the swap program
\* is invoked by an inner instruction only.
EvTransfer ==
    RawEntry(Some(TransactionData(<<"sig-transfer">>, <<SYSTEM_PROGRAM, JUPITER>>,
                                  <<Instruction(0), Instruction(2)>>)),
             Some(Meta(<<InnerInstruction(<<Instruction(1)>>)>>, <<>>,
                       <<TokenBalance(TOKEN_X, Some(5))>>)))

\* A buy of TOKEN_Y; TOKEN_X was already held.
EvBuyFresh ==
    RawEntry(Some(TransactionData(<<"sig-fresh", "sig-cosigner">>, <<"trader", JUPITER>>,
                                  <<Instruction(1)>>)),
             Some(Meta(<<>>, <<TokenBalance(TOKEN_X, Some(5))>>,
                       <<TokenBalance(TOKEN_X, Some(5)), TokenBalance(TOKEN_Y, Some(7))>>)))

\* A swap of an asset that was already held.
EvBuyHeld ==
    RawEntry(Some(TransactionData(<<"sig-held">>, <<RAYDIUM>>, <<Instruction(0)>>)),
             Some(Meta(<<>>, <<TokenBalance(TOKEN_X, Some(5))>>, <<TokenBalance(TOKEN_X, Some(5))>>)))

\* A swap without meta and without signatures.
EvBuyNoMeta ==
    RawEntry(Some(TransactionData(<<>>, <<JUPITER>>, <<Instruction(0)>>)), None)

\* An entry without the required `transaction` member.
EvNoTransaction ==
    RawEntry(None, Some(Meta(<<>>, <<>>, <<TokenBalance(TOKEN_X, Some(5))>>)))

RawEntries == {EvTransfer, EvBuyFresh, EvBuyHeld, EvBuyNoMeta, EvNoTransaction}

Bodies ==
    {[json_array |-> TRUE, entries |-> es] : es \in SeqsUpTo(RawEntries, MaxBatch)}
        \cup {[json_array |-> FALSE, entries |-> <<>>]}

\* What the log file holds when the delivery arrives.
OldLine == <<"Buy detected: Wallet ", "watched-wallet", " made a purchase - Tx: ", "sig-old">>

LogFiles == {<<>>, <<OldLine, <<>>>>}

Deliveries == {"d1"}

NoEvent == WebhookPayload(TransactionData(<<>>, <<>>, <<>>), None)

NoRet == [is_buy |-> None, mint |-> None, monitor_is_buy |-> None]

(***************************************************************************)
(* webhook_handler, main.rs 177-221                                        *)
(***************************************************************************)
Init ==
    /\ body \in [Deliveries -> Bodies]
    /\ pc = [d \in Deliveries |-> "receive"]
    /\ payload = [d \in Deliveries |-> <<>>]
    /\ idx = [d \in Deliveries |-> 0]
    /\ trace = [d \in Deliveries |-> <<>>]
    /\ console = [d \in Deliveries |-> <<>>]
    /\ response = [d \in Deliveries |-> None]
    /\ logFile \in LogFiles
    /\ state = AppState
    /\ tx = NoEvent
    /\ ret = NoRet

\* The event the loop is at, and its 1-based number.
\* The batch is walked from its last entry to its first.
Ev_reversed(d) == Len(payload[d]) - idx[d]

Ev(d) == idx[d] + 1

Cur(d) == payload[d][Ev(d)]

\* main.rs 186
first_signature(t) == unwrap_or(Get(t.transaction.signatures, 0), "unknown")

\* main.rs 189-192, and the line feed writeln! adds after the one of the format
log_lines(wallet, signature) ==
    <<<<"Buy detected: Wallet ", wallet, " made a purchase - Tx: ", signature>>, <<>>>>

\* The signing key is loaded again for every delivery.
Receive_reloading_key(d) ==
    /\ pc[d] = "receive"
    /\ console' = [console EXCEPT ![d] = Append(@, Line(0, "Raw payload", ""))]
    /\ pc' = [pc EXCEPT ![d] = "deserialize"]
    /\ state' = [state EXCEPT !.keypair = "reloaded-keypair"]
    /\ UNCHANGED <<body, payload, idx, trace, response, logFile, tx, ret>>

\* main.rs 178-179
Receive(d) ==
    /\ pc[d] = "receive"
    /\ console' = [console EXCEPT ![d] = Append(@, Line(0, "Raw payload", ""))]
    /\ pc' = [pc EXCEPT ![d] = "deserialize"]
    /\ UNCHANGED <<body, payload, idx, trace, response, logFile, state, tx, ret>>

\* main.rs 181-183 and 218
Deserialize(d) ==
    /\ pc[d] = "deserialize"
    /\ LET r == from_slice(body[d])
       IN  IF r.ok
           THEN /\ payload' = [payload EXCEPT ![d] = unwrap(r.val)]
                /\ console' = [console EXCEPT ![d] = Append(@, Line(0, "Deserialized payload", ""))]
                /\ pc' = [pc EXCEPT ![d] = "loop"]
           ELSE /\ console' = [console EXCEPT ![d] = Append(@, Line(0, "Deserialization failed", r.err))]
                /\ pc' = [pc EXCEPT ![d] = "respond"]
                /\ UNCHANGED payload
    /\ UNCHANGED <<body, idx, trace, response, logFile, state, tx, ret>>

\* main.rs 184-187 and 213-215: the loop head and the classification
Classify(d) ==
    /\ pc[d] = "loop"
    /\ IF idx[d] < Len(payload[d])
       THEN LET buy == is_buy_transaction(Cur(d))
            IN  /\ trace' = [trace EXCEPT ![d] = Append(@, Op(Ev(d), "classify", buy))]
                /\ IF buy
                   THEN /\ console' = [console EXCEPT ![d] =
                                Append(@, Line(Ev(d), "Buy detected for tx", first_signature(Cur(d))))]
                        /\ pc' = [pc EXCEPT ![d] = "open_log"]
                        /\ UNCHANGED idx
                   ELSE /\ console' = [console EXCEPT ![d] =
                                Append(@, Line(Ev(d), "No buy detected for tx", first_signature(Cur(d))))]
                        /\ idx' = [idx EXCEPT ![d] = @ + 1]
                        /\ UNCHANGED pc
       ELSE /\ pc' = [pc EXCEPT ![d] = "respond"]
            /\ UNCHANGED <<idx, trace, console>>
    /\ UNCHANGED <<body, payload, response, logFile, state, tx, ret>>

\* main.rs 193-200: open for append; when that fails File::create, which
\* truncates; when that fails too, unwrap panics.
OpenLog(d) ==
    /\ pc[d] = "open_log"
    /\ \E opened \in BOOLEAN, created \in BOOLEAN :
          IF opened
          THEN /\ created
               /\ trace' = [trace EXCEPT ![d] = Append(@, Op(Ev(d), "open_log", "append"))]
               /\ pc' = [pc EXCEPT ![d] = "write_log"]
               /\ UNCHANGED <<console, logFile>>
          ELSE /\ console' = [console EXCEPT ![d] = Append(@, Line(Ev(d), "Failed to open log file", ""))]
               /\ IF created
                  THEN /\ trace' = [trace EXCEPT ![d] = Append(@, Op(Ev(d), "open_log", "create"))]
                       /\ logFile' = <<>>
                       /\ pc' = [pc EXCEPT ![d] = "write_log"]
                  ELSE /\ trace' = [trace EXCEPT ![d] = Append(@, Op(Ev(d), "open_log", "panic"))]
                       /\ pc' = [pc EXCEPT ![d] = "panicked"]
                       /\ UNCHANGED logFile
    /\ UNCHANGED <<body, payload, idx, response, state, tx, ret>>

\* main.rs 201-203
WriteLog(d) ==
    /\ pc[d] = "write_log"
    /\ \E written \in BOOLEAN :
          /\ trace' = [trace EXCEPT ![d] = Append(@, Op(Ev(d), "write_log", written))]
          /\ IF written
             THEN /\ logFile' = logFile \o log_lines(state.wallet, first_signature(Cur(d)))
                  /\ UNCHANGED console
             ELSE /\ console' = [console EXCEPT ![d] =
                          Append(@, Line(Ev(d), "Failed to write to log file", ""))]
                  /\ UNCHANGED logFile
    /\ pc' = [pc EXCEPT ![d] = "resolve"]
    /\ UNCHANGED <<body, payload, idx, response, state, tx, ret>>

\* An asset that some delivery has already asked a quote for is not traded again.
Resolve_dedup(d) ==
    /\ pc[d] = "resolve"
    /\ LET token_mint == extract_token_mint(Cur(d))
           seen == \E e \in DOMAIN trace : \E k \in DOMAIN trace[e] :
                       trace[e][k].op = "resolve" /\ trace[e][k].arg = token_mint
       IN  IF is_some(token_mint) /\ ~seen
           THEN /\ trace' = [trace EXCEPT ![d] =
                        @ \o <<Op(Ev(d), "resolve", token_mint),
                               Op(Ev(d), "quote", quote_url(unwrap(token_mint)))>>]
                /\ pc' = [pc EXCEPT ![d] = "quote_wait"]
                /\ UNCHANGED <<idx, console>>
           ELSE /\ trace' = [trace EXCEPT ![d] = Append(@, Op(Ev(d), "resolve", token_mint))]
                /\ console' = [console EXCEPT ![d] =
                        Append(@, Line(Ev(d), "Could not determine token mint for tx",
                                       first_signature(Cur(d))))]
                /\ idx' = [idx EXCEPT ![d] = @ + 1]
                /\ pc' = [pc EXCEPT ![d] = "loop"]
    /\ UNCHANGED <<body, payload, response, logFile, state, tx, ret>>

\* main.rs 205 and 210-212, and the quote request of 247-255
Resolve(d) ==
    /\ pc[d] = "resolve"
    /\ LET token_mint == extract_token_mint(Cur(d))
       IN  IF is_some(token_mint)
           THEN /\ trace' = [trace EXCEPT ![d] =
                        @ \o <<Op(Ev(d), "resolve", token_mint),
                               Op(Ev(d), "quote", quote_url(unwrap(token_mint)))>>]
                /\ pc' = [pc EXCEPT ![d] = "quote_wait"]
                /\ UNCHANGED <<idx, console>>
           ELSE /\ trace' = [trace EXCEPT ![d] = Append(@, Op(Ev(d), "resolve", token_mint))]
                /\ console' = [console EXCEPT ![d] =
                        Append(@, Line(Ev(d), "Could not determine token mint for tx",
                                       first_signature(Cur(d))))]
                /\ idx' = [idx EXCEPT ![d] = @ + 1]
                /\ pc' = [pc EXCEPT ![d] = "loop"]
    /\ UNCHANGED <<body, payload, response, logFile, state, tx, ret>>

\* A failed request is sent once more before the error is reported.
SwapFailed_retry(d, ops, e) ==
    LET quotes == {k \in DOMAIN trace[d] : trace[d][k].ev = Ev(d) /\ trace[d][k].op = "quote"}
    IN  IF e = "error sending request" /\ Cardinality(quotes) = 1
        THEN /\ trace' = [trace EXCEPT ![d] = (@ \o ops) \o <<trace[d][Min(quotes)]>>]
             /\ pc' = [pc EXCEPT ![d] = "quote_wait"]
             /\ UNCHANGED <<idx, console>>
        ELSE /\ trace' = [trace EXCEPT ![d] = @ \o ops]
             /\ console' = [console EXCEPT ![d] =
                     Append(@, Line(Ev(d), "Failed to execute copytrade swap", e))]
             /\ idx' = [idx EXCEPT ![d] = @ + 1]
             /\ pc' = [pc EXCEPT ![d] = "loop"]

\* main.rs 208: the Err arm, then the next iteration
SwapFailed(d, ops, e) ==
    /\ trace' = [trace EXCEPT ![d] = @ \o ops]
    /\ console' = [console EXCEPT ![d] = Append(@, Line(Ev(d), "Failed to execute copytrade swap", e))]
    /\ idx' = [idx EXCEPT ![d] = @ + 1]
    /\ pc' = [pc EXCEPT ![d] = "loop"]

\* main.rs 255-270: the quote answer arrives
QuoteRespond(d) ==
    /\ pc[d] = "quote_wait"
    /\ \E r \in QuoteResponses :
          LET a == after_quote(Ev(d), r, state)
          IN  IF a.next = "err" THEN SwapFailed(d, a.ops, a.err)
              ELSE /\ trace' = [trace EXCEPT ![d] = @ \o a.ops]
                   /\ pc' = [pc EXCEPT ![d] = a.next]
                   /\ UNCHANGED <<idx, console>>
    /\ UNCHANGED <<body, payload, response, logFile, state, tx, ret>>

\* A submission starts only while no other delivery is submitting.
BuildRespond_serialized(d) ==
    /\ pc[d] = "build_wait"
    /\ \A e \in DOMAIN pc : e # d => pc[e] # "submit_wait"
    /\ \E r \in BuildResponses :
          LET a == after_build(Ev(d), r, state)
          IN  IF a.next = "err" THEN SwapFailed(d, a.ops, a.err)
              ELSE /\ trace' = [trace EXCEPT ![d] = @ \o a.ops]
                   /\ pc' = [pc EXCEPT ![d] = a.next]
                   /\ UNCHANGED <<idx, console>>
    /\ UNCHANGED <<body, payload, response, logFile, state, tx, ret>>

\* main.rs 270-284: the swap answer arrives
BuildRespond(d) ==
    /\ pc[d] = "build_wait"
    /\ \E r \in BuildResponses :
          LET a == after_build(Ev(d), r, state)
          IN  IF a.next = "err" THEN SwapFailed(d, a.ops, a.err)
              ELSE /\ trace' = [trace EXCEPT ![d] = @ \o a.ops]
                   /\ pc' = [pc EXCEPT ![d] = a.next]
                   /\ UNCHANGED <<idx, console>>
    /\ UNCHANGED <<body, payload, response, logFile, state, tx, ret>>

\* main.rs 281-286 and 207-208: the RPC service answers
SubmitRespond(d) ==
    /\ pc[d] = "submit_wait"
    /\ \E r \in SubmitResponses :
          IF r.ok
          THEN /\ trace' = [trace EXCEPT ![d] = Append(@, Op(Ev(d), "submit_response", r))]
               /\ console' = [console EXCEPT ![d] =
                       Append(@, Line(Ev(d), "Copytrade swap executed", unwrap(r.val)))]
               /\ idx' = [idx EXCEPT ![d] = @ + 1]
               /\ pc' = [pc EXCEPT ![d] = "loop"]
          ELSE SwapFailed(d, <<Op(Ev(d), "submit_response", r)>>, r.err)
    /\ UNCHANGED <<body, payload, response, logFile, state, tx, ret>>

\* main.rs 220
Respond(d) ==
    /\ pc[d] = "respond"
    /\ response' = [response EXCEPT ![d] = Some(StatusCode_OK)]
    /\ pc' = [pc EXCEPT ![d] = "done"]
    /\ UNCHANGED <<body, payload, idx, trace, console, logFile, state, tx, ret>>

\* The steps the handler takes by itself, and the answers it waits for.
HandlerStep(d) ==
    \/ Receive(d)
    \/ Deserialize(d)
    \/ Classify(d)
    \/ OpenLog(d)
    \/ WriteLog(d)
    \/ Resolve(d)
    \/ Respond(d)

ServiceStep(d) ==
    \/ QuoteRespond(d)
    \/ BuildRespond(d)
    \/ SubmitRespond(d)

Next ==
    \E d \in Deliveries :
        \/ Receive(d)
        \/ Deserialize(d)
        \/ Classify(d)
        \/ OpenLog(d)
        \/ WriteLog(d)
        \/ Resolve(d)
        \/ QuoteRespond(d)
        \/ BuildRespond(d)
        \/ SubmitRespond(d)
        \/ Respond(d)

Spec == Init /\ [][Next]_vars

\* The runtime keeps polling a handler that can take a step.  The RPC client
\* (main.rs 341) is built with its default request timeout and gives up
\* confirming when the blockhash expires, so a submission always ends; the
\* HTTP client of the aggregator calls (main.rs 342) is built without any
\* timeout, so nothing forces a quote or swap answer.
FairSpec ==
    Spec /\ \A d \in Deliveries : WF_vars(HandlerStep(d)) /\ WF_vars(SubmitRespond(d))

(***************************************************************************)
(* FnSpec: the pure functions on bounded inputs                            *)
(***************************************************************************)
KeyStrings == {JUPITER, RAYDIUM, SYSTEM_PROGRAM, default_key}

Instructions == {Instruction(i) : i \in 0..MaxKeys}

ClassifyEvents ==
    {WebhookPayload(TransactionData(<<"sig">>, keys, ixs),
                    Some(Meta(IF inner = <<>> THEN <<>> ELSE <<InnerInstruction(inner)>>, <<>>, <<>>))) :
        keys \in SeqsUpTo(KeyStrings, MaxKeys),
        ixs \in SeqsUpTo(Instructions, MaxInstr),
        inner \in SeqsUpTo(Instructions, MaxInner)}

UiAmounts == {None, Some(0), Some(5)}

TokenBalances == {TokenBalance(m, a) : m \in {TOKEN_X, TOKEN_Y}, a \in UiAmounts}

ResolveEvents ==
    {WebhookPayload(TransactionData(<<"sig">>, <<JUPITER>>, <<Instruction(0)>>), m) :
        m \in {None} \cup {Some(Meta(<<>>, pre, post)) :
                               pre \in SeqsUpTo(TokenBalances, MaxBal),
                               post \in SeqsUpTo(TokenBalances, MaxBal)}}

FnInit ==
    /\ tx \in ClassifyEvents \cup ResolveEvents
    /\ ret = NoRet
    /\ body = <<>>
    /\ pc = <<>>
    /\ payload = <<>>
    /\ idx = <<>>
    /\ trace = <<>>
    /\ console = <<>>
    /\ response = <<>>
    /\ logFile = <<>>
    /\ state = AppState

CallIsBuy ==
    /\ is_none(ret.is_buy)
    /\ ret' = [ret EXCEPT !.is_buy = Some(is_buy_transaction(tx))]
    /\ UNCHANGED <<tx, handlerVars>>

CallExtractTokenMint ==
    /\ is_none(ret.mint)
    /\ ret' = [ret EXCEPT !.mint = Some(extract_token_mint(tx))]
    /\ UNCHANGED <<tx, handlerVars>>

FnNext == CallIsBuy \/ CallExtractTokenMint

FnSpec == FnInit /\ [][FnNext]_vars

(***************************************************************************)
(* MonSpec: one transaction is classified by the webhook classifier and,   *)
(* when all its instructions name an existing account key, by the polling  *)
(* monitor's classifier (monitor.rs 33-35).                                *)
(***************************************************************************)
MonInit ==
    /\ tx \in ClassifyEvents
    /\ ret = NoRet
    /\ body = <<>>
    /\ pc = <<>>
    /\ payload = <<>>
    /\ idx = <<>>
    /\ trace = <<>>
    /\ console = <<>>
    /\ response = <<>>
    /\ logFile = <<>>
    /\ state = AppState

CallMonitorIsBuy ==
    /\ is_none(ret.monitor_is_buy)
    /\ all_in_range(tx)
    /\ ret' = [ret EXCEPT !.monitor_is_buy =
                  Some(monitor_is_buy_transaction(as_monitor_transaction(tx)))]
    /\ UNCHANGED <<tx, handlerVars>>

MonNext == CallIsBuy \/ CallMonitorIsBuy

MonSpec == MonInit /\ [][MonNext]_vars

(***************************************************************************)
(* ConcSpec: two webhook deliveries handled concurrently.  axum spawns one *)
(* task per connection on the multi-threaded runtime of #[tokio::main]     *)
(* (main.rs 311, 355-363); the tasks share the AppState and the log file   *)
(* and their steps interleave freely.  Each delivery carries at most one   *)
(* entry.                                                                  *)
(***************************************************************************)
ConcDeliveries == {"d1", "d2"}

ConcBodies == {b \in Bodies : Len(b.entries) <= 1}

ConcInit ==
    /\ body \in [ConcDeliveries -> ConcBodies]
    /\ pc = [d \in ConcDeliveries |-> "receive"]
    /\ payload = [d \in ConcDeliveries |-> <<>>]
    /\ idx = [d \in ConcDeliveries |-> 0]
    /\ trace = [d \in ConcDeliveries |-> <<>>]
    /\ console = [d \in ConcDeliveries |-> <<>>]
    /\ response = [d \in ConcDeliveries |-> None]
    /\ logFile \in LogFiles
    /\ state = AppState
    /\ tx = NoEvent
    /\ ret = NoRet

ConcNext ==
    \E d \in ConcDeliveries :
        \/ Receive(d)
        \/ Deserialize(d)
        \/ Classify(d)
        \/ OpenLog(d)
        \/ WriteLog(d)
        \/ Resolve(d)
        \/ QuoteRespond(d)
        \/ BuildRespond(d)
        \/ SubmitRespond(d)
        \/ Respond(d)

ConcSpec == ConcInit /\ [][ConcNext]_vars

(***************************************************************************)
(* Vocabulary of the properties                                            *)
(***************************************************************************)
Ended(d) == pc[d] \in {"done", "panicked"}

\* Some operation of ops was done for event ev of delivery d.
HasOp(d, ev, ops) == \E k \in DOMAIN trace[d] : trace[d][k].ev = ev /\ trace[d][k].op \in ops

Printed(d, ev, msg, detail) ==
    \E k \in DOMAIN console[d] :
        console[d][k].ev = ev /\ console[d][k].msg = msg /\ console[d][k].detail = detail

PrintedMsg(d, ev, msg) ==
    \E k \in DOMAIN console[d] : console[d][k].ev = ev /\ console[d][k].msg = msg

SwapPrograms == {JUPITER, RAYDIUM}

\* Some top-level instruction has an in-range program_id_index whose account
\* key is an allow-listed swap program.
TopLevelSwap(t) ==
    \E k \in DOMAIN t.transaction.message.instructions :
        LET i == t.transaction.message.instructions[k].program_id_index
            keys == t.transaction.message.account_keys
        IN  i + 1 \in DOMAIN keys /\ keys[i + 1] \in SwapPrograms

\* Some inner instruction, and no top-level one, resolves to a swap program.
InnerSwapOnly(t) ==
    /\ ~TopLevelSwap(t)
    /\ is_some(t.meta)
    /\ \E k \in DOMAIN t.meta[1].inner_instructions :
          \E j \in DOMAIN t.meta[1].inner_instructions[k].instructions :
              LET i == t.meta[1].inner_instructions[k].instructions[j].program_id_index
                  keys == t.transaction.message.account_keys
              IN  i + 1 \in DOMAIN keys /\ keys[i + 1] \in SwapPrograms

Amount(b) == IF b.ui_token_amount.ui_amount = <<>> THEN 0 ELSE b.ui_token_amount.ui_amount[1]

\* The mint is absent from pre, or some pre entry of that mint has amount zero.
FreshAnyEntry(pre, b) ==
    \/ \A j \in DOMAIN pre : pre[j].mint # b.mint
    \/ \E j \in DOMAIN pre : pre[j].mint = b.mint /\ Amount(pre[j]) = 0

\* The mint is absent from pre, or the first pre entry of that mint (in list
\* order) has amount zero.
FreshFirstEntry(pre, b) ==
    \A j \in DOMAIN pre :
        (pre[j].mint = b.mint /\ \A i \in 1..(j - 1) : pre[i].mint # b.mint) => Amount(pre[j]) = 0

\* m is the mint of the first post entry with a positive amount that is fresh
\* in the sense of Fresh, or None if there is no such entry or no meta.
IsFirstFresh(t, m, Fresh(_, _)) ==
    IF t.meta = <<>> THEN m = <<>>
    ELSE LET pre == t.meta[1].pre_token_balances
             post == t.meta[1].post_token_balances
             Q(k) == Amount(post[k]) > 0 /\ Fresh(pre, post[k])
         IN  \/ m = <<>> /\ \A k \in DOMAIN post : ~Q(k)
             \/ \E k \in DOMAIN post :
                   /\ Q(k)
                   /\ \A i \in 1..(k - 1) : ~Q(i)
                   /\ m = <<post[k].mint>>

SwapOps == {"quote", "build", "decode", "sign", "submit"}

(***************************************************************************)
(* C1  Every webhook delivery, whatever the payload and whatever happens   *)
(* while it is processed (a log-sink failure included), ends with the      *)
(* handler returning HTTP 200: no run ends without that response.          *)
(* Violated: File::create(..).unwrap() (main.rs 199) and Transaction::sign *)
(* (main.rs 279) panic, and the run ends without a response.               *)
(***************************************************************************)
C1_EveryRunRespondsOK ==
    \A d \in DOMAIN pc :
        /\ response[d] \in {None, Some(StatusCode_OK)}
        /\ Ended(d) => response[d] = Some(StatusCode_OK)

(***************************************************************************)
(* C2  Failure isolation: a failure of event i at a swap stage (no route,  *)
(* no swap transaction, malformed encoding, signing failure, submission    *)
(* failure or timeout) becomes a reported outcome of event i, does not     *)
(* crash the handler, and every later event of the batch is still          *)
(* classified.                                                             *)
(* Violated: a signing failure is a panic of Transaction::sign.            *)
(***************************************************************************)
StageFailed(d, i) ==
    \E k \in DOMAIN trace[d] :
        /\ trace[d][k].ev = i
        /\ \/ /\ trace[d][k].op \in {"quote_response", "build_response", "submit_response", "sign"}
              /\ ~trace[d][k].arg.ok
           \/ /\ trace[d][k].op = "quote_response"
              /\ trace[d][k].arg.ok
              /\ trace[d][k].arg.val[1].data = <<>>
           \/ /\ trace[d][k].op = "build_response"
              /\ trace[d][k].arg.ok
              /\ \/ trace[d][k].arg.val[1].swapTransaction = <<>>
                 \/ trace[d][k].arg.val[1].swapTransaction[1].type # "string"
           \/ /\ trace[d][k].op = "decode"
              /\ \/ trace[d][k].arg.kind # "base64"
                 \/ trace[d][k].arg.bytes[1].kind # "bincode"

C2_FailureIsolation ==
    \A d \in DOMAIN pc : \A i \in DOMAIN payload[d] :
        StageFailed(d, i) =>
            /\ PrintedMsg(d, i, "Failed to execute copytrade swap")
            /\ idx[d] >= i
            /\ Ended(d) => \A j \in (i + 1)..Len(payload[d]) : HasOp(d, j, {"classify"})

(***************************************************************************)
(* C3  A decode failure is batch-fatal: when the payload is no JSON array  *)
(* or some entry lacks "transaction", no event of the batch is processed   *)
(* (no classification, no log-file access, no aggregator or RPC call), not *)
(* even a well-formed entry before the bad one; the failure is printed and *)
(* the handler returns 200.                                                *)
(***************************************************************************)
Undecodable(b) ==
    \/ ~b.json_array
    \/ \E k \in DOMAIN b.entries : b.entries[k].transaction = <<>>

C3_DecodeFailureIsBatchFatal ==
    \A d \in DOMAIN pc :
        Undecodable(body[d]) =>
            /\ trace[d] = <<>>
            /\ payload[d] = <<>>
            /\ idx[d] = 0
            /\ logFile \in LogFiles
            /\ pc[d] \in {"receive", "deserialize", "respond", "done"}
            /\ pc[d] \in {"respond", "done"} =>
                  /\ Len(console[d]) = 2
                  /\ console[d][2].msg = "Deserialization failed"
            /\ pc[d] = "done" => response[d] = Some(StatusCode_OK)

\* A batch whose second entry is bad and whose first is a buy has been answered.
C3_Witness ==
    \E d \in DOMAIN pc :
        /\ pc[d] = "done"
        /\ Len(body[d].entries) >= 2
        /\ body[d].entries[1] = EvBuyFresh
        /\ body[d].entries[2].transaction = <<>>
        /\ response[d] = Some(StatusCode_OK)

(***************************************************************************)
(* C4  is_buy_transaction(event) is true if and only if some top-level     *)
(* instruction has an in-range program_id_index whose account key is one   *)
(* of the two swap programs; an out-of-range index matches nothing, and    *)
(* inner instructions never make the result true.                          *)
(***************************************************************************)
C4_IsBuyIffTopLevelSwap ==
    ret.is_buy # <<>> => (ret.is_buy[1] <=> TopLevelSwap(tx))

\* is_buy_transaction returned false for an event with an out-of-range
\* top-level index whose only swap instruction is an inner one.
C4_Witness ==
    /\ ret.is_buy = <<FALSE>>
    /\ InnerSwapOnly(tx)
    /\ \E k \in DOMAIN tx.transaction.message.instructions :
          tx.transaction.message.instructions[k].program_id_index
              >= Len(tx.transaction.message.account_keys)

(***************************************************************************)
(* C5, as claimed  extract_token_mint returns None without meta, else the  *)
(* mint of the first post entry with a positive amount whose mint is       *)
(* absent from preTokenBalances or present there with a zero amount, also  *)
(* when a mint has several pre entries with different amounts.             *)
(* Violated: only the first pre entry of the mint is looked at.            *)
(***************************************************************************)
C5_FirstFreshAnyPreEntry ==
    ret.mint # <<>> => IsFirstFresh(tx, ret.mint[1], FreshAnyEntry)

(***************************************************************************)
(* C5, amended  extract_token_mint returns None without meta, else the     *)
(* mint of the first post entry with a positive amount whose mint is       *)
(* absent from preTokenBalances or whose first pre entry (in list order)   *)
(* has a zero amount (an absent amount counts as zero), else None.         *)
(***************************************************************************)
C5_FirstFreshFirstPreEntry ==
    ret.mint # <<>> => IsFirstFresh(tx, ret.mint[1], FreshFirstEntry)

\* extract_token_mint returned None although a later pre entry of the only
\* positive post mint is zero: the first pre entry of that mint is positive.
C5_Witness ==
    /\ ret.mint = <<None>>
    /\ tx.meta # <<>>
    /\ LET pre == tx.meta[1].pre_token_balances
           post == tx.meta[1].post_token_balances
       IN  /\ Len(pre) >= 2 /\ Len(post) >= 1
           /\ pre[1].mint = pre[2].mint /\ post[1].mint = pre[1].mint
           /\ Amount(pre[1]) > 0 /\ Amount(pre[2]) = 0 /\ Amount(post[1]) > 0

(***************************************************************************)
(* C6  For an event none of whose top-level instructions resolves to a     *)
(* swap program the classifier returns false and the pipeline of the event *)
(* ends after classification: no quote, no build, no signing and no        *)
(* submission is ever made for it.                                         *)
(***************************************************************************)
C6_NotABuyNoCalls ==
    \A d \in DOMAIN pc : \A i \in DOMAIN payload[d] :
        ~TopLevelSwap(payload[d][i]) =>
            \A k \in DOMAIN trace[d] :
                trace[d][k].ev = i => trace[d][k].op = "classify" /\ trace[d][k].arg = FALSE

\* The handler is past an event whose swap instruction is an inner one only,
\* and has made a quote call for another event of the same batch.
C6_Witness ==
    \E d \in DOMAIN pc : \E i, j \in DOMAIN payload[d] :
        /\ InnerSwapOnly(payload[d][i])
        /\ HasOp(d, i, {"classify"})
        /\ idx[d] >= i
        /\ HasOp(d, j, {"quote"})

(***************************************************************************)
(* C7  For a buy event for which the resolver returns none (no meta, or no *)
(* post entry satisfies the buy-amount condition, e.g. the asset was       *)
(* already held) the pipeline halts before quoting: no quote, build, sign  *)
(* or submit for that event; and every quote call is for exactly the asset *)
(* the resolver returned for its event.                                    *)
(***************************************************************************)
C7_NoAssetNoQuote ==
    \A d \in DOMAIN pc :
        /\ \A i \in DOMAIN payload[d] :
              (TopLevelSwap(payload[d][i]) /\ IsFirstFresh(payload[d][i], None, FreshFirstEntry))
                  => ~HasOp(d, i, SwapOps)
        /\ \A k \in DOMAIN trace[d] :
              trace[d][k].op = "quote" =>
                  /\ k > 1
                  /\ trace[d][k - 1].op = "resolve"
                  /\ trace[d][k - 1].ev = trace[d][k].ev
                  /\ trace[d][k - 1].arg = <<trace[d][k].arg.outputMint>>
                  /\ IsFirstFresh(payload[d][trace[d][k].ev], <<trace[d][k].arg.outputMint>>,
                                  FreshFirstEntry)

\* The handler is past a buy event with meta whose asset was already held,
\* and past a buy event without meta.
C7_Witness ==
    \E d \in DOMAIN pc : \E i, j \in DOMAIN payload[d] :
        /\ idx[d] >= i /\ idx[d] >= j
        /\ TopLevelSwap(payload[d][i]) /\ TopLevelSwap(payload[d][j])
        /\ payload[d][i].meta # <<>>
        /\ \E k \in DOMAIN payload[d][i].meta[1].pre_token_balances :
              Amount(payload[d][i].meta[1].pre_token_balances[k]) > 0
        /\ HasOp(d, i, {"resolve"}) /\ ~HasOp(d, i, SwapOps)
        /\ payload[d][j].meta = <<>>
        /\ HasOp(d, j, {"resolve"}) /\ ~HasOp(d, j, SwapOps)

(***************************************************************************)
(* C8  When the quote call of an event returns an empty route list, the    *)
(* pipeline of the event reports a no-route-found error and makes no build *)
(* call, no signing and no submission for that event.                      *)
(***************************************************************************)
EmptyQuote(e) == e.op = "quote_response" /\ e.arg.ok /\ e.arg.val[1].data = <<>>

C8_NoRouteNoBuild ==
    \A d \in DOMAIN pc : \A k \in DOMAIN trace[d] :
        EmptyQuote(trace[d][k]) =>
            /\ Printed(d, trace[d][k].ev, "Failed to execute copytrade swap", "No swap route found")
            /\ ~HasOp(d, trace[d][k].ev, {"build", "build_response", "decode", "sign", "submit"})

\* A delivery has been answered after an empty route list.
C8_Witness ==
    \E d \in DOMAIN pc : \E k \in DOMAIN trace[d] : EmptyQuote(trace[d][k]) /\ pc[d] = "done"

(***************************************************************************)
(* C9  When the answer of the build call lacks the swapTransaction member, *)
(* or the member is not a string, the pipeline of the event reports a      *)
(* swap-transaction-missing error and never decodes, signs or submits a    *)
(* transaction for that event.                                             *)
(***************************************************************************)
NoSwapTransaction(e) ==
    /\ e.op = "build_response"
    /\ e.arg.ok
    /\ \/ e.arg.val[1].swapTransaction = <<>>
       \/ e.arg.val[1].swapTransaction[1].type # "string"

C9_NoSwapTransactionNoSign ==
    \A d \in DOMAIN pc : \A k \in DOMAIN trace[d] :
        NoSwapTransaction(trace[d][k]) =>
            /\ Printed(d, trace[d][k].ev, "Failed to execute copytrade swap",
                       "No swap transaction returned")
            /\ ~HasOp(d, trace[d][k].ev, {"decode", "sign", "submit"})

\* A delivery has been answered after a swap answer without the member and
\* after one whose member is a number.
C9_Witness ==
    \E d \in DOMAIN pc : \E k, l \in DOMAIN trace[d] :
        /\ pc[d] = "done"
        /\ NoSwapTransaction(trace[d][k]) /\ trace[d][k].arg.val[1].swapTransaction = <<>>
        /\ NoSwapTransaction(trace[d][l]) /\ trace[d][l].arg.val[1].swapTransaction # <<>>

(***************************************************************************)
(* C10  Every pipeline run terminates: whatever the aggregator and the RPC *)
(* service do, a service that never answers included, each network call    *)
(* (quote, build, submit) ends within a bounded wait with a result or a    *)
(* timeout error, so the handler eventually returns.                       *)
(* Violated: the HTTP client has no timeout; a quote call that is never    *)
(* answered is awaited forever.                                            *)
(***************************************************************************)
Waits == {"quote_wait", "build_wait", "submit_wait"}

C10_EveryCallEnds ==
    \A d \in Deliveries : \A w \in Waits : (pc[d] = w) ~> (pc[d] # w)

(***************************************************************************)
(* C11  The log file is append-only and gets exactly one record per        *)
(* detected buy: a step either leaves its records alone or appends one     *)
(* record, for the event just classified as a buy, carrying the watched    *)
(* wallet and the first signature of the event (or "unknown"); existing    *)
(* records are never removed or rewritten, and nothing is appended for an  *)
(* event that is not a buy.                                                *)
(* Violated: when the open for append fails, the fallback File::create     *)
(* (main.rs 199) truncates the file.                                       *)
(***************************************************************************)
Records(f) == SelectSeq(f, LAMBDA l : l # <<>>)

BuyRecord(d) ==
    <<"Buy detected: Wallet ", AppState.wallet, " made a purchase - Tx: ",
      IF payload[d][idx[d] + 1].transaction.signatures = <<>> THEN "unknown"
      ELSE payload[d][idx[d] + 1].transaction.signatures[1]>>

C11_AppendOnlyOneRecordPerBuy ==
    [][\/ Records(logFile') = Records(logFile)
       \/ \E d \in DOMAIN pc :
             /\ pc[d] = "write_log"
             /\ TopLevelSwap(payload[d][idx[d] + 1])
             /\ Records(logFile') = Append(Records(logFile), BuyRecord(d))]_vars

(***************************************************************************)
(* C12  Within one event the stages run in the order classify, resolve,    *)
(* quote, build, sign, submit: the asset is resolved only for an event     *)
(* classified as a buy, the quote call follows a resolved asset, the build *)
(* call is made only after a quote returned a route, signing only after    *)
(* the build call returned a transaction that decoded, submission only     *)
(* after signing and of the signed transaction; after a failure at any     *)
(* stage no later stage of that event runs.                                *)
(***************************************************************************)
\* Entry j of the trace of d, before entry k, belongs to the same event, is
\* operation op and satisfies P.
Earlier(d, k, op, P(_)) ==
    \E j \in 1..(k - 1) :
        /\ trace[d][j].ev = trace[d][k].ev
        /\ trace[d][j].op = op
        /\ P(trace[d][j].arg)

\* The entry records the failure of a stage.
FailedEntry(e) ==
    \/ e.op \in {"quote_response", "build_response", "submit_response", "sign"} /\ ~e.arg.ok
    \/ e.op = "quote_response" /\ e.arg.ok /\ e.arg.val[1].data = <<>>
    \/ /\ e.op = "build_response"
       /\ e.arg.ok
       /\ \/ e.arg.val[1].swapTransaction = <<>>
          \/ e.arg.val[1].swapTransaction[1].type # "string"
    \/ e.op = "decode" /\ (e.arg.kind # "base64" \/ e.arg.bytes[1].kind # "bincode")
    \/ e.op = "resolve" /\ e.arg = <<>>
    \/ e.op = "classify" /\ ~e.arg

C12_StagesInOrder ==
    \A d \in DOMAIN pc : \A k \in DOMAIN trace[d] :
        LET e == trace[d][k]
        IN  /\ e.op = "resolve" => Earlier(d, k, "classify", LAMBDA a : a)
            /\ e.op = "quote" => Earlier(d, k, "resolve", LAMBDA a : a = <<e.arg.outputMint>>)
            /\ e.op = "build" =>
                  /\ Earlier(d, k, "quote", LAMBDA a : TRUE)
                  /\ trace[d][k - 1].op = "quote_response"
                  /\ trace[d][k - 1].ev = e.ev
                  /\ trace[d][k - 1].arg.ok
                  /\ trace[d][k - 1].arg.val[1].data # <<>>
            /\ e.op = "decode" =>
                  /\ Earlier(d, k, "build", LAMBDA a : TRUE)
                  /\ trace[d][k - 1].op = "build_response"
                  /\ trace[d][k - 1].ev = e.ev
                  /\ trace[d][k - 1].arg.ok
                  /\ trace[d][k - 1].arg.val[1].swapTransaction # <<>>
            /\ e.op = "sign" =>
                  Earlier(d, k, "decode", LAMBDA a : a.kind = "base64" /\ a.bytes[1].kind = "bincode")
            /\ e.op = "submit" =>
                  Earlier(d, k, "sign", LAMBDA a : a.ok /\ a.val = <<e.arg>>)
            /\ FailedEntry(e) => \A l \in (k + 1)..Len(trace[d]) : trace[d][l].ev # e.ev

\* An event went through every stage and its submission was confirmed, and
\* another event of the same delivery failed at the build stage.
C12_Witness ==
    \E d \in DOMAIN pc : \E k, l \in DOMAIN trace[d] :
        /\ trace[d][k].op = "submit_response" /\ trace[d][k].arg.ok
        /\ trace[d][l].op = "build_response" /\ FailedEntry(trace[d][l])
        /\ trace[d][l].ev # trace[d][k].ev
        /\ pc[d] = "done"

(***************************************************************************)
(* C13  No automatic retry: for each event the pipeline issues at most one *)
(* quote request, at most one build request and at most one submit         *)
(* request; a transport or decode error at the quote or build step aborts  *)
(* the run of that event and is reported, and the call is not re-issued.   *)
(***************************************************************************)
C13_NoRetry ==
    \A d \in DOMAIN pc :
        /\ \A k \in DOMAIN trace[d] :
              trace[d][k].op \in {"quote", "build", "submit"} =>
                  \A j \in 1..(k - 1) :
                      ~(trace[d][j].ev = trace[d][k].ev /\ trace[d][j].op = trace[d][k].op)
        /\ \A k \in DOMAIN trace[d] :
              (trace[d][k].op \in {"quote_response", "build_response"} /\ ~trace[d][k].arg.ok) =>
                  /\ k = Len(trace[d]) \/ trace[d][k + 1].ev > trace[d][k].ev
                  /\ Printed(d, trace[d][k].ev, "Failed to execute copytrade swap",
                             trace[d][k].arg.err)

\* After a transport error of the quote call of one event and a transport
\* error of the build call of another the delivery has been answered.
C13_Witness ==
    \E d \in DOMAIN pc : \E k, l \in DOMAIN trace[d] :
        /\ pc[d] = "done"
        /\ trace[d][k].op = "quote_response" /\ ~trace[d][k].arg.ok
        /\ trace[d][l].op = "build_response" /\ ~trace[d][l].arg.ok

(***************************************************************************)
(* C14  The events of one delivery are processed one after the other in    *)
(* batch order: event k+1 is not classified before event k has reached a   *)
(* terminal state, and at any time at most one external call of the        *)
(* delivery is in flight.                                                  *)
(***************************************************************************)
\* The outcome of event i of delivery d has been printed.
Terminal(d, i) ==
    \E k \in DOMAIN console[d] :
        /\ console[d][k].ev = i
        /\ console[d][k].msg \in {"No buy detected for tx", "Could not determine token mint for tx",
                                  "Copytrade swap executed", "Failed to execute copytrade swap"}

AnswerOf(op) ==
    CASE op = "quote" -> "quote_response"
      [] op = "build" -> "build_response"
      [] op = "submit" -> "submit_response"

\* The requests of delivery d that have not been answered.
InFlight(d) ==
    {k \in DOMAIN trace[d] :
        /\ trace[d][k].op \in {"quote", "build", "submit"}
        /\ \A l \in (k + 1)..Len(trace[d]) :
              ~(trace[d][l].ev = trace[d][k].ev /\ trace[d][l].op = AnswerOf(trace[d][k].op))}

C14_EventsInBatchOrder ==
    \A d \in DOMAIN pc :
        /\ \A k \in DOMAIN trace[d] :
              /\ trace[d][k].ev \in DOMAIN payload[d]
              /\ k > 1 => trace[d][k - 1].ev <= trace[d][k].ev
              /\ trace[d][k].op = "classify" =>
                    /\ \A j \in 1..(k - 1) :
                          ~(trace[d][j].ev = trace[d][k].ev /\ trace[d][j].op = "classify")
                    /\ \A i \in 1..(trace[d][k].ev - 1) :
                          /\ Terminal(d, i)
                          /\ \E j \in 1..(k - 1) : trace[d][j].ev = i /\ trace[d][j].op = "classify"
        /\ LET waiting == InFlight(d)
           IN  /\ Cardinality(waiting) <= 1
               /\ \A k \in waiting : trace[d][k].ev = idx[d] + 1 /\ pc[d] \in Waits

\* The second event of a batch has a quote call in flight after the first
\* event made its calls and failed at submission.
C14_Witness ==
    \E d \in DOMAIN pc :
        /\ pc[d] = "quote_wait"
        /\ idx[d] = 1
        /\ HasOp(d, 1, {"submit_response"})
        /\ Terminal(d, 1)
        /\ InFlight(d) # {}

(***************************************************************************)
(* C15  The route sent with the build call is always the first route of    *)
(* the list of the quote answer, unchanged, and the user public key sent   *)
(* with it is always the public key of the signing key loaded at startup.  *)
(***************************************************************************)
C15_FirstRouteOperatorKey ==
    \A d \in DOMAIN pc : \A k \in DOMAIN trace[d] :
        trace[d][k].op = "build" =>
            /\ k > 1
            /\ trace[d][k - 1].op = "quote_response"
            /\ trace[d][k - 1].ev = trace[d][k].ev
            /\ trace[d][k].arg.route = trace[d][k - 1].arg.val[1].data[1]
            /\ trace[d][k].arg.user_public_key = OPERATOR_PUBKEY
            /\ AppState.keypair = OPERATOR_KEYPAIR

\* A build call was made after a quote answer that lists two different routes.
C15_Witness ==
    \E d \in DOMAIN pc : \E k \in DOMAIN trace[d] :
        /\ trace[d][k].op = "build"
        /\ Len(trace[d][k - 1].arg.val[1].data) >= 2
        /\ trace[d][k - 1].arg.val[1].data[1] # trace[d][k - 1].arg.val[1].data[2]

(***************************************************************************)
(* C16  The shared application state (watched wallet, signing key, RPC     *)
(* handle, HTTP handle) is set once at startup and left unchanged by every *)
(* step of every run, whatever the interleaving of concurrent runs: the    *)
(* wallet and the signing key keep their startup values and no run writes  *)
(* key material to the log file.                                           *)
(***************************************************************************)
NoKeyInLog ==
    \A k \in DOMAIN logFile : \A j \in DOMAIN logFile[k] : logFile[k][j] # OPERATOR_KEYPAIR

C16_AppStateUnchanged ==
    [][/\ state.wallet = "watched-wallet" /\ state.keypair = OPERATOR_KEYPAIR
       /\ state' = state
       /\ NoKeyInLog']_vars

\* Both deliveries have signed and submitted, and one submission is confirmed.
C16_Witness ==
    \E d, e \in DOMAIN pc :
        /\ d # e
        /\ HasOp(d, 1, {"submit_response"})
        /\ HasOp(e, 1, {"sign"})
        /\ state.keypair = OPERATOR_KEYPAIR

(***************************************************************************)
(* C17  Submissions are not serialized across deliveries: two deliveries   *)
(* handled concurrently can both be in the submit/confirm stage at once,   *)
(* with transactions signed by the same operator key; while one delivery   *)
(* is submitting, nothing keeps another from starting its submission.      *)
(***************************************************************************)
\* The transaction delivery d has submitted last bears the signature of pk.
SubmittedSignedBy(d, pk) ==
    /\ trace[d] # <<>>
    /\ trace[d][Len(trace[d])].op = "submit"
    /\ \E k \in DOMAIN trace[d][Len(trace[d])].arg.signatures :
          trace[d][Len(trace[d])].arg.signatures[k] # <<>>
              /\ trace[d][Len(trace[d])].arg.signatures[k][1].signer = pk

C17_SubmissionsNotSerialized ==
    \A d, e \in DOMAIN pc :
        (d # e /\ pc[e] = "submit_wait") =>
            /\ pc[d] = "build_wait" => ENABLED (BuildRespond(d) /\ pc'[d] = "submit_wait")
            /\ pc[d] = "submit_wait" =>
                  SubmittedSignedBy(d, OPERATOR_PUBKEY) /\ SubmittedSignedBy(e, OPERATOR_PUBKEY)

\* Both deliveries are waiting for the confirmation of their submission.
C17_Witness ==
    \E d, e \in DOMAIN pc :
        /\ d # e
        /\ pc[d] = "submit_wait" /\ pc[e] = "submit_wait"
        /\ SubmittedSignedBy(d, OPERATOR_PUBKEY) /\ SubmittedSignedBy(e, OPERATOR_PUBKEY)

(***************************************************************************)
(* C18  No state is kept across notifications: for two occurrences of the  *)
(* same event content (in one batch or in two deliveries, handled one      *)
(* after the other or concurrently) the sequences of operations can differ *)
(* first only at an answer of the environment (log sink, aggregator, RPC), *)
(* never at a step the pipeline chooses; with the same answers both        *)
(* occurrences make the same calls and print the same outcome.  The same   *)
(* buy event delivered twice is therefore traded twice.                    *)
(***************************************************************************)
EnvOps == {"open_log", "write_log", "quote_response", "build_response", "submit_response"}

\* The operations done for event i of delivery d, in order.
EvTrace(d, i) == SelectSeq(trace[d], LAMBDA x : x.ev = i)

\* What was printed about event i of delivery d, in order.
EvConsole(d, i) == SelectSeq(console[d], LAMBDA x : x.ev = i)

SameOp(x, y) == x.op = y.op /\ x.arg = y.arg

\* The first k operations of s and t are the same.
Agree(s, t, k) == \A j \in 1..k : SameOp(s[j], t[j])

\* Event i of delivery d has been dealt with.
EventOver(d, i) == idx[d] >= i \/ (pc[d] = "panicked" /\ idx[d] + 1 = i)

SameOutcome(s, t) ==
    /\ Len(s) = Len(t)
    /\ \A j \in DOMAIN s : s[j].msg = t[j].msg /\ s[j].detail = t[j].detail

Occurrences == {o \in (DOMAIN pc) \X (1..MaxBatch) : o[2] \in DOMAIN payload[o[1]]}

C18_NoStateAcrossNotifications ==
    \A o1, o2 \in Occurrences :
        LET s == EvTrace(o1[1], o1[2])
            t == EvTrace(o2[1], o2[2])
        IN  (o1 # o2 /\ payload[o1[1]][o1[2]] = payload[o2[1]][o2[2]]) =>
                /\ \A k \in DOMAIN s \cap DOMAIN t :
                      (Agree(s, t, k - 1) /\ (s[k].op \notin EnvOps \/ t[k].op \notin EnvOps))
                          => SameOp(s[k], t[k])
                /\ (EventOver(o1[1], o1[2]) /\ Len(s) <= Len(t) /\ Agree(s, t, Len(s))) =>
                      /\ Len(t) = Len(s)
                      /\ EventOver(o2[1], o2[2]) =>
                            SameOutcome(EvConsole(o1[1], o1[2]), EvConsole(o2[1], o2[2]))

\* The same buy event came in two deliveries and was submitted and confirmed
\* for both.
C18_Witness ==
    \E d, e \in DOMAIN pc :
        /\ d # e
        /\ payload[d] # <<>> /\ payload[e] # <<>>
        /\ payload[d][1] = payload[e][1]
        /\ \E k \in DOMAIN trace[d] :
              trace[d][k].ev = 1 /\ trace[d][k].op = "submit_response" /\ trace[d][k].arg.ok
        /\ \E k \in DOMAIN trace[e] :
              trace[e][k].ev = 1 /\ trace[e][k].op = "submit_response" /\ trace[e][k].arg.ok

(***************************************************************************)
(* C19  A failure of the log sink does not stop the pipeline: when opening *)
(* the log file for append fails, or writing the record fails, the failure *)
(* is printed, the failure does not crash the handler, the same event goes *)
(* on to asset resolution (and from there, with an asset, to the quote),   *)
(* and the later events of the batch are processed.                        *)
(***************************************************************************)
\* Operation k of delivery d is a failure of the log sink.
LogSinkFailed(d, k) ==
    \/ trace[d][k].op = "open_log" /\ trace[d][k].arg # "append"
    \/ trace[d][k].op = "write_log" /\ ~trace[d][k].arg

\* Event i of delivery d is on its way to asset resolution or has had it.
GoesOnToResolve(d, i) ==
    \/ idx[d] + 1 = i /\ pc[d] \in {"write_log", "resolve"}
    \/ /\ HasOp(d, i, {"resolve"})
       /\ \A k \in DOMAIN trace[d] :
             (trace[d][k].ev = i /\ trace[d][k].op = "resolve" /\ is_some(trace[d][k].arg))
                 => HasOp(d, i, {"quote"})

C19_LogFailureDoesNotStop ==
    \A d \in DOMAIN pc : \A k \in DOMAIN trace[d] :
        LogSinkFailed(d, k) =>
            /\ PrintedMsg(d, trace[d][k].ev,
                          IF trace[d][k].op = "open_log" THEN "Failed to open log file"
                          ELSE "Failed to write to log file")
            /\ ~(pc[d] = "panicked" /\ k = Len(trace[d]))
            /\ GoesOnToResolve(d, trace[d][k].ev)
            /\ pc[d] = "done" => \A i \in DOMAIN payload[d] : HasOp(d, i, {"classify"})

(***************************************************************************)
(* C20  The two buy classifiers agree: for a transaction whose             *)
(* instructions all have an in-range program_id_index, the webhook         *)
(* classifier (resolving the program through the account keys) and the     *)
(* monitor's classifier (comparing the program identifier of each          *)
(* instruction, taken from the same account keys) return the same verdict; *)
(* both recognise the same two swap-program identifiers.                   *)
(***************************************************************************)
C20_ClassifiersAgree ==
    (ret.is_buy # <<>> /\ ret.monitor_is_buy # <<>>) =>
        /\ all_in_range(tx)
        /\ ret.is_buy[1] = ret.monitor_is_buy[1]

\* Both classifiers have said yes to a transaction that invokes only the
\* second swap program, next to an instruction of another program.
C20_Witness ==
    /\ ret.is_buy = <<TRUE>>
    /\ ret.monitor_is_buy = <<TRUE>>
    /\ \A k \in DOMAIN tx.transaction.message.account_keys :
          tx.transaction.message.account_keys[k] # JUPITER
    /\ Len(tx.transaction.message.instructions) = 2

====
